---- MODULE Spec2Model ----
(***************************************************************************)
(* Model of cmd-utils (src/lib.rs): the CommandExt extension of            *)
(* std::process::Command (args_, exec, exec_args, exec_stdout_string), the *)
(* description formatters, and the scoped colouring helper with_color with *)
(* its stdout/stderr front ends.                                           *)
(*                                                                         *)
(* Conventions: Option<T> is a sequence of length at most one (<<>> is     *)
(* None, <<x>> is Some(x)); a byte vector is a sequence of numbers 0..255; *)
(* a String is the sequence of its characters (code points).  A panic      *)
(* (unwrap on an Err) moves the program to pc = "panicked" for good.       *)
(***************************************************************************)
EXTENDS Integers, Sequences, FiniteSets, TLC

\* ---------------------------------------------------------------- bounds
MaxCalls == 2       \* run operations started by the caller
MaxArgs == 3        \* length of the argument list args_/exec_args may reach
MaxStdout == 2      \* bytes a captured child writes to stdout
MaxStderr == 1      \* bytes a captured child writes to stderr

\* ------------------------------------------------------------ the inputs
\* 'A', and the two bytes of U+00E9: 0xC3 is a lead byte of a two-byte
\* sequence and 0xA9 a continuation byte, each invalid on its own.
Bytes == {65, 195, 169}
ExitCodes == {0, 3}
Streams == {"stdout", "stderr"}
Batches == {<<"x">>, <<"y", "z">>}
Failures == {"none", "set_color", "body", "reset", "writeln"}

RECURSIVE SeqsUpTo(_, _)
SeqsUpTo(S, n) ==
    IF n = 0 THEN {<<>>}
    ELSE LET prev == SeqsUpTo(S, n - 1)
         IN prev \cup {Append(s, b) : s \in {p \in prev : Len(p) = n - 1}, b \in S}

\* ----------------------------------------------------- std::process types
\* cmd(program): Command::new, no arguments, no overrides, inherited stdio.
cmd(program) ==
    [program |-> program, args |-> <<>>, envs |-> <<>>, current_dir |-> <<>>,
     stdout |-> "inherit", stderr |-> "inherit"]

\* Commands a caller hands over: built by cmd() and std's builder methods.
InitCommands ==
    {cmd("echo"),
     [cmd("sh") EXCEPT !.args = <<"-c">>, !.envs = <<"K=v">>, !.current_dir = <<"/w">>],
     cmd("nonexistent-binary-xyz")}

\* Mutant of AppendArgs: the batch replaces the arguments.
ReplaceArgs(args, batch) == batch

\* Command::args as used by args_ and exec_args: append, in order.
AppendArgs(args, batch) == args \o batch

\* Mutant of success: any exit code counts as success.
success_any(status) == status >= 0

\* ExitStatus::success
success(status) == status = 0

\* ----------------------------------------------------------------- UTF-8
REPLACEMENT == 65533

IsCont(b) == b >= 128 /\ b <= 191
IsLead2(b) == b >= 194 /\ b <= 223

RECURSIVE Utf8ValidFrom(_, _)
Utf8ValidFrom(bs, i) ==
    IF i > Len(bs) THEN TRUE
    ELSE IF bs[i] < 128 THEN Utf8ValidFrom(bs, i + 1)
    ELSE IF IsLead2(bs[i]) /\ i + 1 <= Len(bs) /\ IsCont(bs[i + 1])
         THEN Utf8ValidFrom(bs, i + 2)
    ELSE FALSE

Utf8Valid(bs) == Utf8ValidFrom(bs, 1)

\* Decoding with U+FFFD in place of every invalid byte; on valid input it
\* is the plain decoding.
RECURSIVE DecodeFrom(_, _)
DecodeFrom(bs, i) ==
    IF i > Len(bs) THEN <<>>
    ELSE IF bs[i] < 128 THEN <<bs[i]>> \o DecodeFrom(bs, i + 1)
    ELSE IF IsLead2(bs[i]) /\ i + 1 <= Len(bs) /\ IsCont(bs[i + 1])
         THEN <<(bs[i] - 192) * 64 + (bs[i + 1] - 128)>> \o DecodeFrom(bs, i + 2)
    ELSE <<REPLACEMENT>> \o DecodeFrom(bs, i + 1)

\* String::from_utf8_lossy
from_utf8_lossy(bs) == DecodeFrom(bs, 1)

\* Mutant of from_utf8: no validation, invalid bytes are replaced.
from_utf8_unchecked(bs) == [ok |-> TRUE, string |-> DecodeFrom(bs, 1), bytes |-> <<>>]

\* String::from_utf8: Ok(String) on valid bytes, else Err(FromUtf8Error)
\* that keeps the bytes.
from_utf8(bs) ==
    IF Utf8Valid(bs)
    THEN [ok |-> TRUE, string |-> DecodeFrom(bs, 1), bytes |-> <<>>]
    ELSE [ok |-> FALSE, string |-> <<>>, bytes |-> bs]

\* String::as_bytes: the UTF-8 encoding of the characters.
RECURSIVE as_bytes(_)
as_bytes(s) ==
    IF s = <<>> THEN <<>>
    ELSE LET c == Head(s)
             enc == IF c < 128 THEN <<c>>
                    ELSE IF c < 2048 THEN <<192 + (c \div 64), 128 + (c % 64)>>
                    ELSE <<224 + (c \div 4096), 128 + ((c \div 64) % 64), 128 + (c % 64)>>
         IN enc \o as_bytes(Tail(s))

\* Mutant of Output: the command is rebuilt from the program name.
Output_rebuilt(command, status, stdout, stderr) ==
    [command |-> cmd(command.program), status |-> status, stdout |-> stdout,
     stderr |-> stderr]

\* struct Output, as exec_stdout_string fills it.
Output(command, status, stdout, stderr) ==
    [command |-> command, status |-> status, stdout |-> stdout, stderr |-> stderr]

\* ------------------------------------------------------------ formatters
\* Display for CommandDescription: the four fields, in this order.
description(c) ==
    [program |-> c.program, args |-> c.args, envs |-> c.envs,
     current_dir |-> c.current_dir]

\* Mutant of cmd_info_with_output: stderr is left out.
cmd_info_without_stderr(c, out, err) ==
    [desc |-> <<description(c)>>, has_output |-> TRUE,
     stdout |-> from_utf8_lossy(out), stderr |-> <<>>]

\* cmd_info_with_output: the description, then both streams decoded lossily.
cmd_info_with_output(c, out, err) ==
    [desc |-> <<description(c)>>, has_output |-> TRUE,
     stdout |-> from_utf8_lossy(out), stderr |-> from_utf8_lossy(err)]

\* What the message of an error of exec_stdout_string's launch failure embeds.
cmd_info(c) ==
    [desc |-> <<description(c)>>, has_output |-> FALSE,
     stdout |-> <<>>, stderr |-> <<>>]

NoInfo == [desc |-> <<>>, has_output |-> FALSE, stdout |-> <<>>, stderr |-> <<>>]

\* anyhow::Result values: tag is "none" before any call has returned.
NoResult == [tag |-> "none", msg |-> "", cause |-> "none", info |-> NoInfo]
OkResult == [tag |-> "Ok", msg |-> "", cause |-> "none", info |-> NoInfo]
Err(msg, cause, info) == [tag |-> "Err", msg |-> msg, cause |-> cause, info |-> info]

\* ------------------------------------------------------------- termcolor
DefaultAttr == [fg |-> "default", bg |-> "default"]
Cyan == [fg |-> "Black", bg |-> "Cyan"]
Green == [fg |-> "Black", bg |-> "Green"]
Red == [fg |-> "Black", bg |-> "Red"]
ColorSpecs == {Cyan, Green, Red}

Sgr(spec) == [t |-> "sgr", fg |-> spec.fg, bg |-> spec.bg, text |-> ""]
Reset == [t |-> "reset", fg |-> "default", bg |-> "default", text |-> ""]
Text(s) == [t |-> "text", fg |-> "", bg |-> "", text |-> s]

\* ColorChoice::should_attempt_color: Never never colours; Auto consults the
\* environment only (TERM set and not "dumb", NO_COLOR unset).
should_attempt_color(choice, envAllows) ==
    CASE choice = "Never" -> FALSE
      [] choice = "Auto" -> envAllows

\* exec's banner stream: StandardStream::stderr(ColorChoice::Auto).
exec_color_choice(tty) == "Auto"

\* stdout_with_color / stderr_with_color: Auto on a terminal, else Never.
atty_color_choice(tty) == IF tty THEN "Auto" ELSE "Never"

\* Mutant of eo_color_spec: the colours are swapped.
eo_color_spec_swapped(cmd_success) == IF cmd_success THEN Red ELSE Green

\* The end banner's spec.
eo_color_spec(cmd_success) == IF cmd_success THEN Green ELSE Red

\* with_color on a stream in state st = [out, attr], colour enabled or not:
\* set_color(spec).unwrap(); f(self); reset().unwrap().  fail names the
\* step that fails ("none": no step does); a failing step panics, and the
\* steps after it, the reset included, do not run.
with_color(st, color, spec, text, fail) ==
    LET s1 == IF fail = "set_color" THEN st
              ELSE IF color THEN [out |-> Append(st.out, Sgr(spec)), attr |-> spec]
              ELSE st
        s2 == IF fail \in {"set_color", "body"} THEN s1
              ELSE [s1 EXCEPT !.out = Append(@, Text(text))]
        s3 == IF fail \in {"set_color", "body", "reset"} THEN s2
              ELSE IF color THEN [out |-> Append(s2.out, Reset), attr |-> DefaultAttr]
              ELSE s2
    IN [out |-> s3.out, attr |-> s3.attr,
        panicked |-> fail \in {"set_color", "body", "reset"}]

\* The steps of a with_color call that can fail: the body's write always,
\* set_color and reset only when they write something.
CanFail(color, fail) == fail \in {"set_color", "reset"} => color

\* ----------------------------------------------------------------- state
VARIABLES
    self,         \* the caller's Command (exec's self)
    cmd_live,     \* FALSE once exec_stdout_string has consumed the Command
    orig,         \* the Command as built, before any run operation
    passed,       \* the Command as the operation in progress received it
    batches,      \* concatenation of the batches passed to exec_args so far
    pc,           \* position of the program
    call_start,   \* length of stderr's output when the operation began
    current_dir,  \* exec's std::env::current_dir(): "unset", "ok" or "err"
    mode,         \* the operation in progress or last returned
    calls,        \* operations started so far
    is_tty,       \* per stream: attached to a terminal
    env_color,    \* the environment allows colour (TERM, NO_COLOR)
    stream_color, \* exec's StandardStream emits colour sequences
    emitted,      \* per stream: what has been written to it, in order
    attr,         \* per stream: the terminal's current colour attributes
    cmd_success,  \* exec's local of that name
    launches,     \* launch attempts of the operation in progress
    launched_args,\* the arguments the last child was launched with
    child,        \* the last child: exit status, bytes written to its pipes
    decoded,      \* exec_stdout_string has called String::from_utf8
    result,       \* what the last operation returned
    output        \* Option<Output> of the last exec_stdout_string

vars == <<self, cmd_live, orig, passed, batches, pc, call_start, current_dir, mode, calls, is_tty, env_color,
          stream_color, emitted, attr, cmd_success, launches, launched_args,
          child, decoded, result, output>>

envVars == <<is_tty, env_color>>
cmdVars == <<self, cmd_live, orig, batches>>
callVars == <<passed, call_start, current_dir, mode, calls>>
termVars == <<emitted, attr>>
runVars == <<cmd_success, launches, launched_args, child, decoded>>

NoChild == [ran |-> FALSE, status |-> 0, stdout |-> <<>>, stderr |-> <<>>]
ChildMark == [t |-> "child", fg |-> "", bg |-> "", text |-> ""]

\* The OS cannot launch a program that does not exist; any other launch
\* may fail or not.
LaunchOutcomes(program) ==
    IF program = "nonexistent-binary-xyz" THEN {FALSE} ELSE BOOLEAN

Init ==
    /\ self \in InitCommands
    /\ cmd_live = TRUE
    /\ orig = self
    /\ passed = self
    /\ batches = <<>>
    /\ pc = "idle"
    /\ call_start = 0
    /\ current_dir = "unset"
    /\ mode = "none"
    /\ calls = 0
    /\ is_tty \in [Streams -> BOOLEAN]
    /\ env_color \in BOOLEAN
    /\ stream_color = FALSE
    /\ emitted = [s \in Streams |-> <<>>]
    /\ attr = [s \in Streams |-> DefaultAttr]
    /\ cmd_success = FALSE
    /\ launches = 0
    /\ launched_args = <<>>
    /\ child = NoChild
    /\ decoded = FALSE
    /\ result = NoResult
    /\ output = <<>>

\* The caller starts operation m: a fresh call, its locals unset.
Enter(m) ==
    /\ pc = "idle"
    /\ calls < MaxCalls
    /\ calls' = calls + 1
    /\ mode' = m
    /\ call_start' = Len(emitted["stderr"])
    /\ current_dir' = "unset"
    /\ launches' = 0
    /\ child' = NoChild
    /\ decoded' = FALSE
    /\ cmd_success' = FALSE
    /\ output' = <<>>
    /\ UNCHANGED launched_args

\* ------------------------------------------------------------ operations
\* args_: consumes the Command and returns it with the arguments appended.
args_ ==
    /\ pc = "idle"
    /\ cmd_live
    /\ calls = 0
    /\ \E batch \in Batches :
          /\ Len(self.args) + Len(batch) < MaxArgs
          /\ self' = [self EXCEPT !.args = AppendArgs(@, batch)]
          /\ orig' = self'
          /\ passed' = self'
    /\ UNCHANGED <<cmd_live, batches, pc, call_start, current_dir, mode, calls, envVars,
                   stream_color, termVars, runVars, result, output>>

\* exec, entry: the banner stream is StandardStream::stderr(ColorChoice::Auto).
exec ==
    /\ cmd_live
    /\ Enter("exec")
    /\ pc' = "exec_current_dir"
    /\ result' = NoResult
    /\ passed' = self
    /\ stream_color' = should_attempt_color(exec_color_choice(is_tty["stderr"]), env_color)
    /\ UNCHANGED <<cmdVars, envVars, termVars>>

\* exec_args: self.args(args); self.exec().
exec_args ==
    /\ cmd_live
    /\ Enter("exec_args")
    /\ pc' = "exec_current_dir"
    /\ result' = NoResult
    /\ \E batch \in Batches :
          /\ Len(self.args) + Len(batch) <= MaxArgs
          /\ self' = [self EXCEPT !.args = AppendArgs(@, batch)]
          /\ batches' = batches \o batch
          /\ passed' = self'
    /\ stream_color' = should_attempt_color(exec_color_choice(is_tty["stderr"]), env_color)
    /\ UNCHANGED <<cmd_live, orig, envVars, termVars>>

\* Mutant of exec_current_dir: the error is unwrapped instead of returned.
exec_current_dir_unwrap ==
    /\ pc = "exec_current_dir"
    /\ \E ok \in BOOLEAN :
          IF ok
          THEN /\ pc' = "exec_start_banner"
               /\ current_dir' = "ok"
          ELSE /\ pc' = "panicked"
               /\ current_dir' = "err"
    /\ UNCHANGED <<cmdVars, passed, call_start, mode, calls, envVars, stream_color,
                   termVars, runVars, result, output>>

\* exec, std::env::current_dir()?: an error returns at once.
exec_current_dir ==
    /\ pc = "exec_current_dir"
    /\ \E ok \in BOOLEAN :
          IF ok
          THEN /\ pc' = "exec_start_banner"
               /\ current_dir' = "ok"
               /\ UNCHANGED result
          ELSE /\ pc' = "idle"
               /\ current_dir' = "err"
               /\ result' = Err("Failed to get current working directory", "io", NoInfo)
    /\ UNCHANGED <<cmdVars, passed, call_start, mode, calls, envVars, stream_color,
                   termVars, runVars, output>>

\* exec, the start banner: the working directory in colour, then the
\* invocation and a newline, each write unwrapped.
exec_start_banner ==
    /\ pc = "exec_start_banner"
    /\ \E fail \in Failures :
          /\ CanFail(stream_color, fail)
          /\ LET st == [out |-> emitted["stderr"], attr |-> attr["stderr"]]
                 w == with_color(st, stream_color, Cyan, "current_dir", fail)
             IN IF w.panicked
                THEN /\ emitted' = [emitted EXCEPT !["stderr"] = w.out]
                     /\ attr' = [attr EXCEPT !["stderr"] = w.attr]
                     /\ pc' = "panicked"
                ELSE IF fail = "writeln"
                THEN /\ emitted' = [emitted EXCEPT !["stderr"] = w.out]
                     /\ attr' = [attr EXCEPT !["stderr"] = w.attr]
                     /\ pc' = "panicked"
                ELSE /\ emitted' = [emitted EXCEPT !["stderr"] = Append(w.out, Text("invocation"))]
                     /\ attr' = [attr EXCEPT !["stderr"] = w.attr]
                     /\ pc' = "exec_status"
    /\ UNCHANGED <<cmdVars, callVars, envVars, stream_color, runVars, result, output>>

\* Mutant of exec_status: a failed launch is tried once more before the
\* error is returned.
exec_status_retry ==
    /\ pc = "exec_status"
    /\ launched_args' = self.args
    /\ \E launched \in LaunchOutcomes(self.program), status \in ExitCodes :
          IF launched
          THEN /\ launches' = launches + 1
               /\ child' = [ran |-> TRUE, status |-> status, stdout |-> <<>>, stderr |-> <<>>]
               /\ cmd_success' = success(status)
               /\ emitted' = [emitted EXCEPT !["stderr"] = Append(@, ChildMark)]
               /\ pc' = "exec_end_banner"
               /\ UNCHANGED result
          ELSE /\ status = 0
               /\ launches' = launches + 2
               /\ pc' = "idle"
               /\ result' = Err("Failed to execute command", "io", NoInfo)
               /\ UNCHANGED <<child, cmd_success, emitted>>
    /\ UNCHANGED <<cmdVars, callVars, envVars, stream_color, attr, decoded, output>>

\* exec, self.status()?: one launch with inherited streams, then the wait.
exec_status ==
    /\ pc = "exec_status"
    /\ launches' = launches + 1
    /\ launched_args' = self.args
    /\ \E launched \in LaunchOutcomes(self.program), status \in ExitCodes :
          IF launched
          THEN /\ child' = [ran |-> TRUE, status |-> status, stdout |-> <<>>, stderr |-> <<>>]
               /\ cmd_success' = success(status)
               /\ emitted' = [emitted EXCEPT !["stderr"] = Append(@, ChildMark)]
               /\ pc' = "exec_end_banner"
               /\ UNCHANGED result
          ELSE /\ status = 0
               /\ pc' = "idle"
               /\ result' = Err("Failed to execute command", "io", NoInfo)
               /\ UNCHANGED <<child, cmd_success, emitted>>
    /\ UNCHANGED <<cmdVars, callVars, envVars, stream_color, attr, decoded, output>>

\* exec, the end banner, then the return value.
exec_end_banner ==
    /\ pc = "exec_end_banner"
    /\ \E fail \in Failures :
          /\ CanFail(stream_color, fail)
          /\ LET st == [out |-> emitted["stderr"], attr |-> attr["stderr"]]
                 w == with_color(st, stream_color, eo_color_spec(cmd_success),
                                 " END OUTPUT ", fail)
             IN IF w.panicked \/ fail = "writeln"
                THEN /\ emitted' = [emitted EXCEPT !["stderr"] = w.out]
                     /\ attr' = [attr EXCEPT !["stderr"] = w.attr]
                     /\ pc' = "panicked"
                     /\ UNCHANGED result
                ELSE /\ emitted' = [emitted EXCEPT !["stderr"] = Append(w.out, Text("newline"))]
                     /\ attr' = [attr EXCEPT !["stderr"] = w.attr]
                     /\ pc' = "idle"
                     /\ result' = IF cmd_success THEN OkResult
                                  ELSE Err("Process did not exit successfully", "none", NoInfo)
    /\ UNCHANGED <<cmdVars, callVars, envVars, stream_color, runVars, output>>

\* exec_stdout_string, up to output()?: both streams piped, one launch.
exec_stdout_string ==
    /\ cmd_live
    /\ Enter("exec_stdout_string")
    /\ pc' = "captured_output"
    /\ result' = NoResult
    /\ cmd_live' = FALSE
    /\ passed' = self
    /\ self' = [self EXCEPT !.stdout = "piped", !.stderr = "piped"]
    /\ UNCHANGED <<orig, batches, envVars, stream_color, termVars>>

captured_output ==
    /\ pc = "captured_output"
    /\ launches' = launches + 1
    /\ launched_args' = self.args
    /\ \E launched \in LaunchOutcomes(self.program), status \in ExitCodes,
          out \in SeqsUpTo(Bytes, MaxStdout), err \in SeqsUpTo(Bytes, MaxStderr) :
          IF launched
          THEN /\ child' = [ran |-> TRUE, status |-> status, stdout |-> out, stderr |-> err]
               /\ pc' = "captured_status"
               /\ UNCHANGED result
          ELSE /\ status = 0 /\ out = <<>> /\ err = <<>>
               /\ pc' = "idle"
               /\ result' = Err("Failed to execute command", "io", cmd_info(self))
               /\ UNCHANGED child
    /\ UNCHANGED <<cmdVars, callVars, envVars, stream_color, termVars,
                   cmd_success, decoded, output>>

\* exec_stdout_string, if !status.success() { bail!(..) }
captured_status ==
    /\ pc = "captured_status"
    /\ IF ~success(child.status)
       THEN /\ pc' = "idle"
            /\ result' = Err("Process did not exit successfully", "none",
                             cmd_info_with_output(self, child.stdout, child.stderr))
       ELSE /\ pc' = "captured_decode"
            /\ UNCHANGED result
    /\ UNCHANGED <<cmdVars, callVars, envVars, stream_color, termVars, runVars, output>>

\* exec_stdout_string, String::from_utf8(stdout) and the Output.
captured_decode ==
    /\ pc = "captured_decode"
    /\ decoded' = TRUE
    /\ LET r == from_utf8(child.stdout)
       IN IF r.ok
          THEN /\ output' = <<Output(self, child.status, r.string, child.stderr)>>
               /\ result' = OkResult
          ELSE /\ output' = <<>>
               /\ result' = Err("Process stdout is not UTF-8", "FromUtf8Error",
                                cmd_info_with_output(self, r.bytes, child.stderr))
    /\ pc' = "idle"
    /\ UNCHANGED <<cmdVars, callVars, envVars, stream_color, termVars,
                   cmd_success, launches, launched_args, child>>

\* stdout_with_color / stderr_with_color with a body that writes or fails.
std_with_color ==
    /\ Enter("with_color")
    /\ \E s \in Streams, spec \in ColorSpecs, fail \in Failures \ {"writeln"} :
          LET color == should_attempt_color(atty_color_choice(is_tty[s]), env_color)
              w == with_color([out |-> emitted[s], attr |-> attr[s]], color, spec,
                              "body", fail)
          IN /\ CanFail(color, fail)
             /\ emitted' = [emitted EXCEPT ![s] = w.out]
             /\ attr' = [attr EXCEPT ![s] = w.attr]
             /\ pc' = IF w.panicked THEN "panicked" ELSE "idle"
             /\ result' = IF w.panicked THEN NoResult ELSE OkResult
    /\ UNCHANGED <<cmdVars, passed, envVars, stream_color>>

Next ==
    \/ args_
    \/ exec
    \/ exec_args
    \/ exec_current_dir
    \/ exec_start_banner
    \/ exec_status
    \/ exec_end_banner
    \/ exec_stdout_string
    \/ captured_output
    \/ captured_status
    \/ captured_decode
    \/ std_with_color

Spec == Init /\ [][Next]_vars

\* ---------------------------------------------------------------- claims
Streaming == mode \in {"exec", "exec_args"}
Captured == mode = "exec_stdout_string"
Returned == pc = "idle" /\ result.tag # "none"

\* Bytes that are text: the encoding of some sequence of characters.
TextChars == {65, 233}
IsText(bs) == \E s \in SeqsUpTo(TextChars, Len(bs)) : as_bytes(s) = bs

\* What the operation in progress has written to standard error.
Written == SubSeq(emitted["stderr"], call_start + 1, Len(emitted["stderr"]))
Positions(item) == {i \in 1..Len(Written) : Written[i] = item}
Coloured(log) == \E i \in 1..Len(log) : log[i].t \in {"sgr", "reset"}

SameDescriptor(c, d) ==
    /\ c.program = d.program
    /\ c.args = d.args
    /\ c.envs = d.envs
    /\ c.current_dir = d.current_dir

\* C1: exec_stdout_string builds an Output only for a child that exited
\* with success and wrote valid text to stdout; a completed child that
\* exited non-zero or wrote invalid bytes makes the call return an error.
C1_OutputOnlyOnSuccess ==
    /\ Len(output) > 0 =>
          /\ Captured /\ result.tag = "Ok"
          /\ child.ran /\ child.status = 0 /\ IsText(child.stdout)
    /\ (Captured /\ Returned /\ child.ran
          /\ ~(child.status = 0 /\ IsText(child.stdout))) =>
          result.tag = "Err" /\ Len(output) = 0

C1_Witness ==
    /\ Captured /\ Returned /\ child.ran
    /\ child.status = 0 /\ ~IsText(child.stdout)
    /\ result.tag = "Err" /\ Len(output) = 0

\* C2: a captured child that exits 0 with valid text on stdout yields
\* Ok(Output) whose stdout is exactly the bytes written, whose stderr is
\* the raw stderr bytes, whose status is the exit status and whose command
\* is the descriptor passed in.
C2_OutputRoundTrip ==
    (Captured /\ Returned /\ child.ran /\ child.status = 0 /\ IsText(child.stdout)) =>
        /\ result.tag = "Ok"
        /\ Len(output) = 1
        /\ as_bytes(output[1].stdout) = child.stdout
        /\ output[1].stderr = child.stderr
        /\ output[1].status = child.status
        /\ SameDescriptor(output[1].command, passed)

C2_Witness ==
    /\ Captured /\ Returned /\ result.tag = "Ok" /\ Len(output) = 1
    /\ child.stdout = <<195, 169>> /\ child.stderr = <<169>>
    /\ Len(passed.args) > 0

\* C3: after a with_color call, whether its body returned or failed, the
\* stream's colour attributes are the default ones again.
C3_ColorRestored == \A s \in Streams : attr[s] = DefaultAttr

\* C4: exec on a standard error that is not a terminal writes no colour
\* sequences, and a run that returns after its child completed has written
\* both the invocation line and the END OUTPUT line.
C4_PlainWhenNotTty ==
    (Streaming /\ ~is_tty["stderr"]) =>
        /\ ~Coloured(Written)
        /\ (Returned /\ child.ran) =>
              /\ Positions(Text("invocation")) # {}
              /\ Positions(Text(" END OUTPUT ")) # {}

LossyOf(text, bs) ==
    IF IsText(bs) THEN as_bytes(text) = bs
    ELSE \E i \in 1..Len(text) : text[i] = REPLACEMENT

C6_LaunchFailure ==
    /\ launches <= 1
    /\ (Returned /\ (Streaming \/ Captured) /\ launches >= 1 /\ ~child.ran) =>
          /\ result.tag = "Err"
          /\ result.msg = "Failed to execute command"
          /\ result.cause = "io"
          /\ launches = 1
    /\ (Returned /\ (Streaming \/ Captured) /\ passed.program = "nonexistent-binary-xyz") =>
          /\ result.tag = "Err"
          /\ result.msg # "Process did not exit successfully"
          /\ ~child.ran

C6_Witness ==
    /\ Returned /\ Streaming /\ launches = 1 /\ ~child.ran
    /\ passed.program = "nonexistent-binary-xyz"
    /\ result.msg = "Failed to execute command"

\* C7: in a streaming run the start banner is on standard error before the
\* child is launched, the END OUTPUT line is written only after the child
\* has terminated, its background is green exactly when the exit status is
\* success and red otherwise, and a run whose child completed returns an
\* error exactly when the status is not success.
C7_BannerOrder ==
    Streaming =>
        /\ launches >= 1 =>
              /\ Positions(Text("current_dir")) # {}
              /\ Positions(Text("invocation")) # {}
        /\ \A i \in Positions(Text("invocation")), j \in Positions(ChildMark) : i < j
        /\ \A k \in Positions(Text(" END OUTPUT ")) :
              /\ child.ran
              /\ \A j \in Positions(ChildMark) : j < k
              /\ stream_color =>
                    /\ k > 1
                    /\ Written[k - 1].t = "sgr"
                    /\ Written[k - 1].fg = "Black"
                    /\ Written[k - 1].bg = (IF child.status = 0 THEN "Green" ELSE "Red")
        /\ child.ran => Cardinality(Positions(ChildMark)) = 1
        /\ (Returned /\ child.ran) =>
              /\ Cardinality(Positions(Text(" END OUTPUT "))) = 1
              /\ (result.tag = "Err") = (child.status # 0)
              /\ (result.tag = "Ok") = (child.status = 0)

C7_Witness ==
    /\ Streaming /\ Returned /\ child.ran /\ child.status # 0 /\ stream_color
    /\ result.tag = "Err"
    /\ Positions(Text(" END OUTPUT ")) # {}

\* C8: exec_stdout_string classifies a run as launch failure, else
\* non-zero exit, else invalid stdout, else success; a child that exits
\* non-zero with invalid bytes on stdout gives the non-zero-exit error, and
\* stdout is decoded only after the status was found successful.
C8_Precedence ==
    /\ decoded => (Captured /\ child.ran /\ child.status = 0)
    /\ (Captured /\ Returned) =>
          /\ result.msg =
                (IF ~child.ran THEN "Failed to execute command"
                 ELSE IF child.status # 0 THEN "Process did not exit successfully"
                 ELSE IF ~IsText(child.stdout) THEN "Process stdout is not UTF-8"
                 ELSE "")
          /\ (result.tag = "Ok") = (result.msg = "")
          /\ (child.ran /\ child.status # 0) =>
                /\ ~decoded
                /\ LossyOf(result.info.stdout, child.stdout)

C8_Witness ==
    /\ Captured /\ Returned /\ child.ran
    /\ child.status # 0 /\ ~IsText(child.stdout)
    /\ result.msg = "Process did not exit successfully"

\* C9: the Command's arguments are always the original ones followed by
\* every batch passed to exec_args so far, in call order, whatever the
\* calls returned; each child is launched with all of them; program,
\* environment and working directory never change, and exec adds nothing.
C9_ArgsAccumulate ==
    /\ self.args = orig.args \o batches
    /\ self.program = orig.program
    /\ self.envs = orig.envs
    /\ self.current_dir = orig.current_dir
    /\ launches >= 1 => launched_args = orig.args \o batches
    /\ mode = "exec" => passed.args = self.args

C9_Witness ==
    /\ mode = "exec_args" /\ pc \in {"idle", "panicked"} /\ calls = 2
    /\ Len(orig.args) > 0
    /\ Len(batches) = 2
    /\ result.tag # "Ok"

\* C10: when exec cannot determine the working directory it returns the
\* error, without panicking, having written nothing to standard error and
\* launched nothing.
C10_CurrentDirFailure ==
    (Streaming /\ current_dir = "err") =>
        /\ pc = "idle"
        /\ result.tag = "Err"
        /\ result.msg = "Failed to get current working directory"
        /\ Len(Written) = 0
        /\ launches = 0
        /\ ~child.ran

C10_Witness ==
    /\ Streaming /\ current_dir = "err" /\ Returned
    /\ calls = 2 /\ Len(emitted["stderr"]) > 0

====
